---- MODULE Spec2Model ----
(***************************************************************************)
(* A model of train.py of CGD: the epoch loop of __main__, the training    *)
(* step train(), the evaluation step test(), and the files the loop        *)
(* writes (statistics, best model, embedding database, checkpoint).        *)
(*                                                                         *)
(* Representation of numbers.  A recall value returned by recall() is a    *)
(* fraction; it is held as its number of hundredths (15 is 0.15).  The     *)
(* learning rate is held as the number of times the factor gamma = 0.1 has *)
(* been applied to the initial rate (--lr).  A mean total/count is held as *)
(* the pair <<total, count>>.                                              *)
(***************************************************************************)
EXTENDS Integers, Sequences, FiniteSets, TLC

VARIABLES
    \* command line of the running process
    num_epochs, recalls, prev_checkpoint_path,
    \* number of batches train_data_loader yields per epoch
    num_batches,
    \* files on disk
    ckptFile, statsFile, modelFile, dbFile,
    \* memory of the running process
    pc, epoch, start_epoch, results, best_recall, rank,
    weights, mode, optimizer, last_epoch, features,
    totals, batchIdx,
    \* history variables
    launches, log, bestWrites, written, stepped, error,
    \* the files completely written in the current epoch, in order, and the
    \* batches (size, loss, correct) that went through the current train()
    epochWrites, batches

config == <<num_epochs, recalls, prev_checkpoint_path, num_batches>>
disk   == <<ckptFile, statsFile, modelFile, dbFile>>
memory == <<epoch, start_epoch, results, best_recall, rank, weights, mode,
            optimizer, last_epoch, features, totals, batchIdx>>
ghost  == <<launches, log, bestWrites, written, stepped, error, epochWrites,
            batches>>
vars   == <<config, disk, pc, memory, ghost>>

----------------------------------------------------------------------------
(* Bounds of the model *)

MaxEpochs == 4
MaxLaunches == 2
FreshEpochs == 5
MaxBatches == 2

(* Inputs *)

\* --recalls lists: sorted, unsorted and with a repeated K
KLists == {<<1>>, <<1, 2>>, <<2, 1>>, <<1, 1>>}
AllKs == {1, 2}
\* recall fractions, in hundredths
AccVals == {10, 15}
FreshAccVals == {0, 10, 15, 18, 20}
\* what a tensor returned by the forward pass may contain
Kinds == {"finite", "nan"}
AllKinds == {"finite", "nan", "posinf", "neginf"}
\* --checkpoint: not given, the path this run saves its checkpoint to, a path
\* where there is no file
Paths == {"", "ckpt", "nofile"}
\* per batch: inputs.size(0), loss.item() and the number of correct predictions
BatchSizes == {1}
Losses == {2}
Corrects(n) == {n}
TrainBatchSizes == {1, 2}
TrainLosses == {1, 2}
TrainCorrects(n) == 0..n

Running == {"load", "init_best", "for", "train", "batch", "test", "recall",
            "sched", "save_stats", "write_stats", "save_best", "save_model", "write_model",
            "save_db", "write_db", "save_ckpt", "write_ckpt"}
Stopped == {"NotStarted", "Completed", "Failed", "Crashed"}

----------------------------------------------------------------------------
(* Pure helpers *)

SetOf(s) == {s[i] : i \in 1..Len(s)}

\* acc_list[index] * 100, the fraction held in hundredths
Percent(h) == (h * 100) \div 100

\* total / count
Mean(total, count) == <<total, count>>

\* results = {'train_loss': [], 'train_accuracy': []} plus one empty series
\* per 'test_recall@K'
NewResults(ks) ==
    [train_loss |-> <<>>, train_accuracy |-> <<>>,
     test_recall |-> [k \in SetOf(ks) |-> <<>>]]

\* milestones=[int(0.6 * num_epochs), int(0.8 * num_epochs)]
Milestones(n) == <<(6 * n) \div 10, (8 * n) \div 10>>

\* MultiStepLR keeps the milestones in a Counter: how often t is a milestone
MilestoneCount(n, t) == Cardinality({i \in 1..2 : Milestones(n)[i] = t})

\* MultiStepLR.get_lr(): group['lr'] * gamma ** milestones[last_epoch]
SchedGetLr(lr, n, t) == lr + MilestoneCount(n, t)

\* Adam(model.parameters(), lr=learning_rate) followed by the construction of
\* MultiStepLR, whose initial step sets last_epoch = 0 and applies get_lr()
NewOptimizer(n) == [lr |-> SchedGetLr(0, n, 0), steps |-> 0]

NoFile == [state |-> "absent"]
PartialFile == [state |-> "partial"]

\* os.path.exists(prev_checkpoint_path)
Exists(path) == path = "ckpt" /\ ckptFile.state # "absent"

\* every series of results, as the lengths pandas compares with the index
SeriesLens(res) ==
    {Len(res.train_loss), Len(res.train_accuracy)}
        \cup {Len(res.test_recall[k]) : k \in DOMAIN res.test_recall}

\* pd.DataFrame(data=results, index=range(1, epoch + 1)): one row per index
RowsMutant(res, e) ==
    [i \in 1..e |->
        [epoch |-> i,
         train_loss |-> res.train_loss[i],
         train_accuracy |-> res.train_accuracy[i],
         test_recall |-> [k \in DOMAIN res.test_recall |-> res.test_recall[k][e]]]]
Rows(res, e) ==
    [i \in 1..e |->
        [epoch |-> i,
         train_loss |-> res.train_loss[i],
         train_accuracy |-> res.train_accuracy[i],
         test_recall |-> [k \in DOMAIN res.test_recall |-> res.test_recall[k][i]]]]

\* recall(): one value per requested K, non-decreasing in K
RecallOutcomes(ks, vals) ==
    {[i \in 1..Len(ks) |-> a[ks[i]]] :
        a \in {f \in [AllKs -> vals] : \A j, k \in AllKs : j <= k => f[j] <= f[k]}}

\* the loop of test() over enumerate(recall_ids):
\* results['test_recall@{}'.format(rank_id)].append(acc_list[index] * 100)
RECURSIVE AppendRecalls(_, _, _, _)
AppendRecalls(tr, ks, acc, i) ==
    IF i > Len(ks) THEN tr
    ELSE AppendRecalls([tr EXCEPT ![ks[i]] = Append(@, Percent(acc[i]))],
                       ks, acc, i + 1)

\* return acc_list[0]
PrimaryRecall(acc) == acc[1]

----------------------------------------------------------------------------
(* Initial state: nothing on disk, no process started *)

NoMemory ==
    /\ epoch = 0
    /\ start_epoch = 1
    /\ results = NewResults(<<>>)
    /\ best_recall = 0
    /\ rank = 0
    /\ weights = 0
    /\ mode = [other |-> "train", bn |-> "train"]
    /\ optimizer = [lr |-> 0, steps |-> 0]
    /\ last_epoch = 0
    /\ features = -1
    /\ totals = [loss |-> 0, correct |-> 0, num |-> 0]
    /\ batchIdx = 0

InitWith(epochChoices, batchChoices) ==
    /\ num_epochs \in epochChoices
    /\ num_batches \in batchChoices
    /\ recalls = <<1>>
    /\ prev_checkpoint_path = ""
    /\ ckptFile = NoFile
    /\ statsFile = NoFile
    /\ modelFile = NoFile
    /\ dbFile = NoFile
    /\ pc = "NotStarted"
    /\ NoMemory
    /\ launches = 0
    /\ log = <<>>
    /\ bestWrites = {}
    /\ written = {}
    /\ stepped = <<>>
    /\ error = "none"
    /\ epochWrites = <<>>
    /\ batches = <<>>

Init == InitWith(1..MaxEpochs, {0, 1})

----------------------------------------------------------------------------
(* The process stops: its memory is gone, the files stay *)

Dead(how, why) ==
    /\ pc' = how
    /\ error' = why
    /\ epoch' = 0
    /\ start_epoch' = 1
    /\ results' = NewResults(<<>>)
    /\ best_recall' = 0
    /\ rank' = 0
    /\ weights' = 0
    /\ mode' = [other |-> "train", bn |-> "train"]
    /\ optimizer' = [lr |-> 0, steps |-> 0]
    /\ last_epoch' = 0
    /\ features' = -1
    /\ totals' = [loss |-> 0, correct |-> 0, num |-> 0]
    /\ batchIdx' = 0
    /\ log' = <<>>
    /\ bestWrites' = {}
    /\ stepped' = <<>>
    /\ written' = {}
    /\ epochWrites' = <<>>
    /\ batches' = <<>>
    /\ recalls' = <<1>>
    /\ prev_checkpoint_path' = ""
    /\ UNCHANGED <<num_epochs, num_batches, disk, launches>>

\* an uncaught exception ends the process
Raise(why) == Dead("Failed", why)

\* the process is killed (power loss, kill -9) at any point
Crash ==
    /\ pc \in Running
    /\ Dead("Crashed", "none")

----------------------------------------------------------------------------
(* __main__ up to the epoch loop *)

\* argument parsing, results, model, optimizer and scheduler construction
Launch(ks, path) ==
    /\ pc \in Stopped
    /\ launches < MaxLaunches
    /\ launches' = launches + 1
    /\ recalls' = ks
    /\ prev_checkpoint_path' = path
    /\ pc' = "load"
    /\ epoch' = 0
    /\ start_epoch' = 1
    /\ results' = NewResults(ks)
    /\ best_recall' = 0
    /\ rank' = 0
    /\ weights' = 0
    /\ mode' = [other |-> "train", bn |-> "train"]
    /\ optimizer' = NewOptimizer(num_epochs)
    /\ last_epoch' = 0
    /\ features' = -1
    /\ totals' = [loss |-> 0, correct |-> 0, num |-> 0]
    /\ batchIdx' = 0
    /\ log' = <<>>
    /\ bestWrites' = {}
    /\ written' = {}
    /\ stepped' = <<>>
    /\ error' = "none"
    /\ epochWrites' = <<>>
    /\ batches' = <<>>
    /\ UNCHANGED <<num_epochs, num_batches, disk>>

\* start_epoch = checkpoint['epoch'] + 1
ResumeEpochMutant(e) == e
ResumeEpoch(e) == e + 1

\* load checkpoint if given
LoadCheckpoint ==
    /\ pc = "load"
    /\ IF Exists(prev_checkpoint_path)
       THEN IF ckptFile.state = "partial"
            THEN Raise("LoadError")
            ELSE /\ weights' = ckptFile.model_state_dict
                 /\ optimizer' = ckptFile.optimizer_state_dict
                 /\ start_epoch' = ResumeEpoch(ckptFile.epoch)
                 /\ results' = ckptFile.results
                 /\ pc' = "init_best"
                 /\ UNCHANGED <<config, disk, epoch, best_recall, rank, mode,
                                last_epoch, features, totals, batchIdx, ghost>>
       ELSE /\ pc' = "init_best"
            /\ UNCHANGED <<config, disk, memory, ghost>>

\* best_recall = 0.0, and the range of the for loop is created
InitBest ==
    /\ pc = "init_best"
    /\ best_recall' = 0
    /\ epoch' = start_epoch - 1
    /\ pc' = "for"
    /\ UNCHANGED <<config, disk, start_epoch, results, rank, weights, mode,
                   optimizer, last_epoch, features, totals, batchIdx, ghost>>

\* the step of range(start_epoch, num_epochs + 1)
NextEpochMutant(e) == e + 2
NextEpoch(e) == e + 1

\* for epoch in range(start_epoch, num_epochs + 1)
ForEpoch ==
    /\ pc = "for"
    /\ IF NextEpoch(epoch) <= num_epochs
       THEN /\ epoch' = NextEpoch(epoch)
            /\ pc' = "train"
            /\ epochWrites' = <<>>
       ELSE /\ pc' = "Completed"
            /\ UNCHANGED <<epoch, epochWrites>>
    /\ UNCHANGED <<config, disk, start_epoch, results, best_recall, rank,
                   weights, mode, optimizer, last_epoch, features, totals,
                   batchIdx, launches, log, bestWrites, written, stepped,
                   error, batches>>

----------------------------------------------------------------------------
(* train(net, optim) *)

\* net.train(): every module of the model in training mode
NetTrain(m) == [other |-> "train", bn |-> "train"]

\* net.eval(): every module of the model in inference mode
NetEvalMutant(m) == m
NetEval(m) == [other |-> "eval", bn |-> "eval"]

\* set_bn_eval, applied to every module: the normalization layers are put
\* in inference mode, the other modules are left as they are
SetBnEval(m) == [m EXCEPT !.bn = "eval"]

\* net.train() and then net.apply(set_bn_eval)
TrainModeMutant(m) == NetTrain(SetBnEval(m))
TrainMode(m) == SetBnEval(NetTrain(m))

\* net.train(); net.apply(set_bn_eval); the accumulators start at 0
TrainStart ==
    /\ pc = "train"
    /\ mode' = TrainMode(mode)
    /\ totals' = [loss |-> 0, correct |-> 0, num |-> 0]
    /\ batchIdx' = 0
    /\ batches' = <<>>
    /\ log' = Append(log, <<epoch, "train">>)
    /\ pc' = "batch"
    /\ UNCHANGED <<config, disk, epoch, start_epoch, results, best_recall,
                   rank, weights, optimizer, last_epoch, features,
                   launches, bestWrites, written, stepped, error,
                   epochWrites>>

\* total_loss += loss.item() * inputs.size(0)
\* total_correct += torch.sum(pred == labels).item()
\* total_num += inputs.size(0)
Accumulate(t, n, loss, correct) ==
    [loss |-> t.loss + loss * n,
     correct |-> t.correct + correct,
     num |-> t.num + n]

\* if features.isnan().any(): raise ValueError
\* if classes.isnan().any(): raise ValueError
NumericalCheckFails(fk, ck) == fk = "nan" \/ ck = "nan"

\* one iteration of the loop over data_bar; fk and ck say what the features
\* and the classes of the forward pass contain
TrainBatch(fk, ck, n, loss, correct) ==
    /\ pc = "batch"
    /\ batchIdx < num_batches
    /\ IF NumericalCheckFails(fk, ck)
       THEN Raise("ValueError")
       ELSE /\ weights' = weights + 1
            /\ optimizer' = [optimizer EXCEPT !.steps = @ + 1]
            /\ totals' = Accumulate(totals, n, loss, correct)
            /\ batchIdx' = batchIdx + 1
            /\ stepped' = <<fk, ck>>
            /\ batches' = Append(batches, <<n, loss, correct>>)
            /\ UNCHANGED <<config, disk, pc, epoch, start_epoch, results,
                           best_recall, rank, mode, last_epoch, features,
                           launches, log, bestWrites, written, error,
                           epochWrites>>

\* return total_loss / total_num, total_correct / total_num * 100, and the
\* two appends of the caller
TrainReturn ==
    /\ pc = "batch"
    /\ batchIdx = num_batches
    /\ IF totals.num = 0
       THEN Raise("ZeroDivisionError")
       ELSE /\ results' =
                 [results EXCEPT
                    !.train_loss = Append(@, Mean(totals.loss, totals.num)),
                    !.train_accuracy =
                        Append(@, Mean(totals.correct * 100, totals.num))]
            /\ stepped' = <<>>
            /\ log' = Append(log, <<epoch, "trained">>)
            /\ pc' = "test"
            /\ UNCHANGED <<config, disk, epoch, start_epoch, best_recall,
                           rank, weights, mode, optimizer, last_epoch,
                           features, totals, batchIdx, launches, bestWrites,
                           written, error, epochWrites, batches>>

----------------------------------------------------------------------------
(* test(net, recall_ids) *)

\* net.eval() and the feature vectors of the evaluation set
TestFeatures ==
    /\ pc = "test"
    /\ mode' = NetEval(mode)
    /\ features' = weights
    /\ log' = Append(log, <<epoch, "test">>)
    /\ pc' = "recall"
    /\ UNCHANGED <<config, disk, epoch, start_epoch, results, best_recall,
                   rank, weights, optimizer, last_epoch, totals, batchIdx,
                   launches, bestWrites, written, stepped, error,
                   epochWrites, batches>>

\* the recall metric, the appends to results, return acc_list[0]
TestRecall(vals) ==
    /\ pc = "recall"
    /\ \E acc \in RecallOutcomes(recalls, vals) :
         IF SetOf(recalls) \subseteq DOMAIN results.test_recall
         THEN /\ results' =
                   [results EXCEPT
                      !.test_recall = AppendRecalls(@, recalls, acc, 1)]
              /\ rank' = PrimaryRecall(acc)
              /\ log' = Append(log, <<epoch, "tested">>)
              /\ pc' = "sched"
              /\ UNCHANGED <<config, disk, epoch, start_epoch, best_recall,
                             weights, mode, optimizer, last_epoch, features,
                             totals, batchIdx, launches, bestWrites, written,
                             stepped, error, epochWrites, batches>>
         ELSE Raise("KeyError")

----------------------------------------------------------------------------
(* the rest of the loop body *)

\* lr_scheduler.step()
SchedStep ==
    /\ pc = "sched"
    /\ last_epoch' = last_epoch + 1
    /\ optimizer' = [optimizer EXCEPT
                        !.lr = SchedGetLr(@, num_epochs, last_epoch + 1)]
    /\ pc' = "save_stats"
    /\ UNCHANGED <<config, disk, epoch, start_epoch, results, best_recall,
                   rank, weights, mode, features, totals, batchIdx, ghost>>

\* save statistics: pandas raises ValueError unless every series has as many
\* entries as the index; to_csv opens the file for writing, which truncates it
SaveStatistics ==
    /\ pc = "save_stats"
    /\ IF SeriesLens(results) = {epoch}
       THEN /\ statsFile' = PartialFile
            /\ written' = written \cup {"stats"}
            /\ pc' = "write_stats"
            /\ UNCHANGED <<config, ckptFile, modelFile, dbFile, memory,
                           launches, log, bestWrites, stepped, error,
                           epochWrites, batches>>
       ELSE Raise("DataFrameError")

\* ... and the rows are written
WriteStatistics ==
    /\ pc = "write_stats"
    /\ statsFile' = [state |-> "complete", rows |-> Rows(results, epoch)]
    /\ epochWrites' = Append(epochWrites, "stats")
    /\ pc' = "save_best"
    /\ UNCHANGED <<config, ckptFile, modelFile, dbFile, memory,
                   launches, log, bestWrites, written, stepped, error,
                   batches>>

\* if rank > best_recall
ImprovedMutant(r, best) == r >= best
Improved(r, best) == r > best

\* what follows the comparison: the two torch.save of the best artifact and
\* then the checkpoint, or the checkpoint at once
AfterComparisonMutant(improved) == IF improved THEN "save_model" ELSE "for"
AfterComparison(improved) == IF improved THEN "save_model" ELSE "save_ckpt"

\* save database and model: the comparison and best_recall = rank
SaveBest ==
    /\ pc = "save_best"
    /\ pc' = AfterComparison(Improved(rank, best_recall))
    /\ IF Improved(rank, best_recall)
       THEN best_recall' = rank
       ELSE UNCHANGED best_recall
    /\ UNCHANGED <<config, disk, epoch, start_epoch, results, rank, weights,
                   mode, optimizer, last_epoch, features, totals, batchIdx,
                   ghost>>

\* torch.save(model.state_dict(), ..._model.pth): the file is opened for
\* writing, which truncates it
OpenModelFile ==
    /\ pc = "save_model"
    /\ modelFile' = PartialFile
    /\ written' = written \cup {"model"}
    /\ pc' = "write_model"
    /\ UNCHANGED <<config, ckptFile, statsFile, dbFile, memory,
                   launches, log, bestWrites, stepped, error,
                   epochWrites, batches>>

\* ... and the write completes
WriteModelFile ==
    /\ pc = "write_model"
    /\ modelFile' = [state |-> "complete", epoch |-> epoch,
                     model_state_dict |-> weights]
    /\ epochWrites' = Append(epochWrites, "model")
    /\ pc' = "save_db"
    /\ UNCHANGED <<config, ckptFile, statsFile, dbFile, memory,
                   launches, log, bestWrites, written, stepped, error,
                   batches>>

\* torch.save(data_base, ..._data_base.pth)
OpenDbFile ==
    /\ pc = "save_db"
    /\ dbFile' = PartialFile
    /\ written' = written \cup {"db"}
    /\ pc' = "write_db"
    /\ UNCHANGED <<config, ckptFile, statsFile, modelFile, memory,
                   launches, log, bestWrites, stepped, error,
                   epochWrites, batches>>

WriteDbFile ==
    /\ pc = "write_db"
    /\ dbFile' = [state |-> "complete", epoch |-> epoch,
                  test_features |-> features]
    /\ bestWrites' = bestWrites \cup {epoch}
    /\ epochWrites' = Append(epochWrites, "db")
    /\ pc' = "save_ckpt"
    /\ UNCHANGED <<config, ckptFile, statsFile, modelFile, memory,
                   launches, log, written, stepped, error, batches>>

\* save checkpoint: torch.save({...}, ..._checkpoint.pth) opens the file
OpenCkptFile ==
    /\ pc = "save_ckpt"
    /\ ckptFile' = PartialFile
    /\ written' = written \cup {"ckpt"}
    /\ pc' = "write_ckpt"
    /\ UNCHANGED <<config, statsFile, modelFile, dbFile, memory,
                   launches, log, bestWrites, stepped, error,
                   epochWrites, batches>>

WriteCkptFile ==
    /\ pc = "write_ckpt"
    /\ ckptFile' = [state |-> "complete",
                    epoch |-> epoch,
                    model_state_dict |-> weights,
                    optimizer_state_dict |-> optimizer,
                    results |-> results]
    /\ epochWrites' = Append(epochWrites, "ckpt")
    /\ pc' = "for"
    /\ UNCHANGED <<config, statsFile, modelFile, dbFile, memory,
                   launches, log, bestWrites, written, stepped, error,
                   batches>>

----------------------------------------------------------------------------
(* The program with crashes and restarts *)

Next ==
    \/ \E ks \in KLists, path \in Paths : Launch(ks, path)
    \/ LoadCheckpoint
    \/ InitBest
    \/ ForEpoch
    \/ TrainStart
    \/ \E fk \in Kinds, ck \in Kinds, n \in BatchSizes, loss \in Losses :
          \E correct \in Corrects(n) : TrainBatch(fk, ck, n, loss, correct)
    \/ TrainReturn
    \/ TestFeatures
    \/ TestRecall(AccVals)
    \/ SchedStep
    \/ SaveStatistics
    \/ WriteStatistics
    \/ SaveBest
    \/ OpenModelFile
    \/ WriteModelFile
    \/ OpenDbFile
    \/ WriteDbFile
    \/ OpenCkptFile
    \/ WriteCkptFile
    \/ Crash

Spec == Init /\ [][Next]_vars

----------------------------------------------------------------------------
(* One run started without a checkpoint, on an empty results directory, in
   which nothing fails *)

LaunchFresh ==
    /\ launches = 0
    /\ Launch(<<1>>, "")

TrainBatchFinite ==
    \E n \in BatchSizes, loss \in Losses :
        \E correct \in Corrects(n) :
            TrainBatch("finite", "finite", n, loss, correct)

InitFresh == InitWith(1..FreshEpochs, {1})

NextFresh ==
    \/ LaunchFresh
    \/ LoadCheckpoint
    \/ InitBest
    \/ ForEpoch
    \/ TrainStart
    \/ TrainBatchFinite
    \/ TrainReturn
    \/ TestFeatures
    \/ TestRecall(FreshAccVals)
    \/ SchedStep
    \/ SaveStatistics
    \/ WriteStatistics
    \/ SaveBest
    \/ OpenModelFile
    \/ WriteModelFile
    \/ OpenDbFile
    \/ WriteDbFile
    \/ OpenCkptFile
    \/ WriteCkptFile

SpecFresh == InitFresh /\ [][NextFresh]_vars

----------------------------------------------------------------------------
(* The training step of the first epoch of a run, over every kind of batch *)

TrainBatchAny ==
    \E fk \in AllKinds, ck \in AllKinds, n \in TrainBatchSizes,
       loss \in TrainLosses :
        \E correct \in TrainCorrects(n) : TrainBatch(fk, ck, n, loss, correct)

InitTrain == InitWith({1}, 0..MaxBatches)

NextTrain ==
    \/ LaunchFresh
    \/ LoadCheckpoint
    \/ InitBest
    \/ ForEpoch
    \/ TrainStart
    \/ TrainBatchAny
    \/ TrainReturn

SpecTrain == InitTrain /\ [][NextTrain]_vars

----------------------------------------------------------------------------
(* Properties *)

Last(s) == s[Len(s)]

\* the smallest K of a --recalls list
MinK(ks) == CHOOSE k \in SetOf(ks) : \A j \in SetOf(ks) : k <= j

\* the series the orchestrator's rank is appended to
PrimarySeries == results.test_recall[recalls[1]]

\* s is a prefix of t
IsPrefix(s, t) == Len(s) <= Len(t) /\ \A i \in 1..Len(s) : s[i] = t[i]

\* the number of epochs whose best-artifact decision has been carried out
Decided ==
    IF pc \in {"save_ckpt", "write_ckpt", "for", "Completed"} THEN epoch
    ELSE epoch - 1

\* C1: the best artifact is written at an epoch only if that epoch's primary
\* recall is strictly greater than the primary recall of every earlier epoch,
\* the epochs of the restored results series included.
C1_BestOnlyAboveAllHistory ==
    pc \in {"write_model", "save_db", "write_db"} =>
        \A j \in 1..(epoch - 1) : PrimarySeries[j] < Percent(rank)

\* C2: in a run started without a checkpoint the best artifact is written at
\* epoch e if and only if recall(e) > 0 and recall(e) > recall(j) for every
\* j < e; for the recalls 10, 15, 15, 20, 18 the writes are at epochs 1, 2, 4.
C2_FreshBestWrites ==
    /\ \A e \in 1..Decided :
          (e \in bestWrites) <=>
              /\ PrimarySeries[e] > 0
              /\ \A j \in 1..(e - 1) : PrimarySeries[j] < PrimarySeries[e]
    /\ (pc = "Completed" /\ PrimarySeries = <<10, 15, 15, 20, 18>>)
          => bestWrites = {1, 2, 4}

C2_Witness ==
    /\ pc = "Completed"
    /\ PrimarySeries = <<10, 15, 15, 20, 18>>
    /\ bestWrites = {1, 2, 4}

\* C3: when a resume path is given and no usable checkpoint is at that path,
\* the process fails at startup: it never goes on to the epoch loop.
C3_UnusableResumePathIsFatal ==
    (pc = "init_best" /\ prev_checkpoint_path # "") =>
        (Exists(prev_checkpoint_path) /\ ckptFile.state = "complete")

\* C4: a saved checkpoint holds the epoch, the optimizer state and the results
\* of the moment it is saved, every series with exactly that many entries;
\* restoring it gives back these values, and the first epoch run after the
\* restore is the saved epoch + 1.
C4_CheckpointRoundTrip ==
    /\ ckptFile.state = "complete" =>
          SeriesLens(ckptFile.results) = {ckptFile.epoch}
    /\ (pc = "for" /\ "ckpt" \in written) =>
          /\ ckptFile.epoch = epoch
          /\ ckptFile.optimizer_state_dict = optimizer
          /\ ckptFile.results = results
    /\ (pc = "init_best" /\ Exists(prev_checkpoint_path)) =>
          /\ start_epoch = ckptFile.epoch + 1
          /\ optimizer = ckptFile.optimizer_state_dict
          /\ results = ckptFile.results
    /\ (start_epoch > 1 /\ log # <<>>) => log[1] = <<start_epoch, "train">>
    /\ (start_epoch > 1 /\ "ckpt" \notin written /\ pc \in Running) =>
          /\ ckptFile.state = "complete"
          /\ start_epoch = ckptFile.epoch + 1

C4_Witness ==
    /\ pc = "batch"
    /\ ckptFile.state = "complete"
    /\ ckptFile.epoch >= 2
    /\ epoch = ckptFile.epoch + 1
    /\ log = <<<<epoch, "train">>>>
    /\ IsPrefix(ckptFile.results.train_loss, results.train_loss)

\* C5: after a crash at any point the checkpoint file is absent or a complete
\* checkpoint, never a partially written one.
C5_CrashLeavesCheckpointWhole ==
    pc = "Crashed" => ckptFile.state \in {"absent", "complete"}

\* C6: no batch whose embeddings or logits hold a non-finite value reaches the
\* optimizer step.
C6_NonFiniteNeverStepped ==
    \A i \in 1..Len(stepped) : stepped[i] = "finite"

\* C7: the primary recall compared with the best so far is the recall at the
\* smallest requested K, for sorted and unsorted K lists.
C7_PrimaryIsSmallestK ==
    pc = "sched" =>
        Percent(rank) = Last(results.test_recall[MinK(recalls)])

\* the learning rate of epoch e in the epoch-indexed schedule
ScheduledLr(n, e) == Cardinality({i \in 1..2 : Milestones(n)[i] < e})

\* C8: the learning rate used while training epoch e is the initial rate times
\* 0.1 for each milestone less than e, in fresh and in resumed runs.
C8_LrEpochIndexed ==
    pc = "batch" => optimizer.lr = ScheduledLr(num_epochs, epoch)

\* the epochs completed and persisted so far hold in every series
StatsWritten ==
    \/ pc \in {"save_best", "save_model", "write_model", "save_db",
               "write_db", "save_ckpt", "write_ckpt"}
    \/ pc \in {"for", "Completed"} /\ "stats" \in written

C9_Inv ==
    StatsWritten =>
        /\ SeriesLens(results) = {epoch}
        /\ statsFile.state = "complete"
        /\ Len(statsFile.rows) = epoch
        /\ \A i \in 1..epoch :
              /\ statsFile.rows[i].epoch = i
              /\ statsFile.rows[i].train_loss = results.train_loss[i]
              /\ statsFile.rows[i].train_accuracy = results.train_accuracy[i]
              /\ \A k \in DOMAIN results.test_recall :
                    statsFile.rows[i].test_recall[k] = results.test_recall[k][i]

C9_Step ==
    (pc \in Running \ {"load"} /\ pc' \in Running \cup {"Completed"}) =>
        /\ IsPrefix(results.train_loss, results'.train_loss)
        /\ IsPrefix(results.train_accuracy, results'.train_accuracy)
        /\ DOMAIN results'.test_recall = DOMAIN results.test_recall
        /\ \A k \in DOMAIN results.test_recall :
              IsPrefix(results.test_recall[k], results'.test_recall[k])

\* C9: after epoch e every series holds exactly e entries, the statistics file
\* holds exactly the rows of epochs 1..e, and entries once appended never
\* change.
C9_ResultsAppendOnly == []C9_Inv /\ [][C9_Step]_vars

C9_Witness ==
    /\ pc = "save_best"
    /\ start_epoch > 1
    /\ epoch > start_epoch
    /\ Cardinality(DOMAIN results.test_recall) = 2
    /\ Len(statsFile.rows) = epoch

Phases == <<"train", "trained", "test", "tested">>

\* C10: the epochs start_epoch .. num_epochs are run in increasing order, none
\* skipped or repeated, each with its training before its evaluation and its
\* evaluation before the next training; the run is Completed after exactly
\* these epochs, and after none, with nothing written, when start_epoch is
\* beyond num_epochs.
C10_EpochStateMachine ==
    /\ \A i \in 1..Len(log) :
          log[i] = <<start_epoch + ((i - 1) \div 4), Phases[((i - 1) % 4) + 1]>>
    /\ pc = "Completed" =>
          /\ Len(log) = 4 * (IF start_epoch > num_epochs THEN 0
                             ELSE num_epochs - start_epoch + 1)
          /\ start_epoch > num_epochs => written = {}
          /\ start_epoch <= num_epochs =>
                {"stats", "ckpt"} \subseteq written

C10_Witness ==
    /\ pc = "Completed"
    /\ start_epoch > 1
    /\ Len(log) >= 8

\* the orders in which one epoch writes its files
WriteOrders == {<<"stats", "model", "db", "ckpt">>, <<"stats", "ckpt">>}

\* the epoch loop has gone through the whole body of the current epoch
EpochCompleted == pc \in {"for", "Completed"} /\ epoch >= start_epoch

C11_Ordering ==
    /\ \E o \in WriteOrders : IsPrefix(epochWrites, o)
    /\ EpochCompleted => Last(epochWrites) = "ckpt"
    /\ (\E i \in 1..Len(epochWrites) : epochWrites[i] = "model") =>
          /\ best_recall = rank
          /\ rank > 0
          /\ \A j \in start_epoch..(epoch - 1) : PrimarySeries[j] < Percent(rank)

C12_FrozenNormalization ==
    /\ pc = "batch" => mode = [other |-> "train", bn |-> "eval"]
    /\ pc = "recall" => mode = [other |-> "eval", bn |-> "eval"]

C12_Witness ==
    /\ pc = "batch"
    /\ batchIdx < num_batches
    /\ epoch > start_epoch
    /\ features # -1
    /\ mode = [other |-> "train", bn |-> "eval"]

\* the training step raises on a numerical failure
Abort == pc = "batch" /\ pc' = "Failed" /\ error' = "ValueError"

\* C13 as stated: when the training step of epoch e aborts, the statistics
\* file holds no entry for epoch e, the best artifact is not rewritten and the
\* checkpoint on disk records epoch e - 1.
C13_AbortLeavesStateOfPreviousEpoch ==
    [][Abort =>
          /\ disk' = disk
          /\ statsFile.state = "complete" => Len(statsFile.rows) < epoch
          /\ epoch >= 2 =>
                (ckptFile.state = "complete" /\ ckptFile.epoch = epoch - 1)]_vars

\* C13 as amended: the abort of the training step of epoch e changes no file,
\* the process has written nothing in epoch e, and from epoch 2 on (also the
\* first epoch of a resumed run) the checkpoint on disk records epoch e - 1.
C13_AbortWritesNothing ==
    [][Abort =>
          /\ disk' = disk
          /\ epochWrites = <<>>
          /\ epoch >= 2 =>
                (ckptFile.state = "complete" /\ ckptFile.epoch = epoch - 1)]_vars

C13_Witness ==
    /\ pc = "Failed"
    /\ error = "ValueError"
    /\ launches = 1
    /\ ckptFile.state = "complete"
    /\ statsFile.state = "complete"
    /\ Len(statsFile.rows) = ckptFile.epoch

\* C14: after a crash at any point, when the best-model file and the database
\* file both exist they were written in the same epoch, and the stored
\* embeddings were produced by the stored weights.
C14_BestFilesBelongTogether ==
    (pc = "Crashed" /\ modelFile.state = "complete" /\ dbFile.state = "complete")
        => /\ modelFile.epoch = dbFile.epoch
           /\ dbFile.test_features = modelFile.model_state_dict

\* a step of test()
EvalStep == pc \in {"test", "recall"} /\ pc' \in {"recall", "sched"}

\* C15 as stated: the evaluation step leaves parameters, optimizer state and
\* operating mode as they were, and changes only the stored embedding bank.
C15_EvaluationChangesOnlyTheBank ==
    [][EvalStep =>
          /\ weights' = weights
          /\ optimizer' = optimizer
          /\ mode' = mode
          /\ UNCHANGED <<results, best_recall, last_epoch, totals, disk>>]_vars

\* C15 as amended: the evaluation step leaves parameters and optimizer state
\* as they were and the model in inference mode; besides it only stores the
\* embedding bank and appends one recall value per requested K to results.
C15_EvaluationKeepsParameters ==
    [][EvalStep =>
          /\ weights' = weights
          /\ optimizer' = optimizer
          /\ mode' = [other |-> "eval", bn |-> "eval"]
          /\ UNCHANGED <<best_recall, last_epoch, totals, disk>>
          /\ results'.train_loss = results.train_loss
          /\ results'.train_accuracy = results.train_accuracy
          /\ pc = "test" => (features' = weights /\ results' = results)
          /\ pc = "recall" =>
                /\ features' = features
                /\ \A k \in DOMAIN results.test_recall :
                      /\ IsPrefix(results.test_recall[k], results'.test_recall[k])
                      /\ k \in SetOf(recalls) =>
                            Len(results'.test_recall[k]) >
                                Len(results.test_recall[k])]_vars

C15_Witness ==
    /\ pc = "sched"
    /\ epoch >= 2
    /\ mode = [other |-> "eval", bn |-> "eval"]
    /\ features = weights
    /\ Len(PrimarySeries) = epoch

\* sum of f over the batches seen
RECURSIVE SumOver(_, _)
SumOver(bs, i) ==
    IF bs = <<>> THEN 0
    ELSE (IF i = 0 THEN Head(bs)[2] * Head(bs)[1] ELSE Head(bs)[i])
             + SumOver(Tail(bs), i)

SumSizes == SumOver(batches, 1)
SumCorrect == SumOver(batches, 3)
SumLoss == SumOver(batches, 0)

C16_Sums ==
    /\ pc = "batch" =>
          /\ totals.num = SumSizes
          /\ totals.correct = SumCorrect
          /\ totals.correct <= totals.num
          /\ totals.loss = SumLoss
    /\ pc = "test" =>
          /\ Last(results.train_loss) = <<SumLoss, SumSizes>>
          /\ Last(results.train_accuracy) = <<100 * SumCorrect, SumSizes>>
          /\ 0 <= 100 * SumCorrect
          /\ 100 * SumCorrect <= 100 * SumSizes

\* C16: the accumulators are the sums over the batches, the step
\* returns the two means, and the result is defined for every data iterable,
\* one that yields no batches included.
C16_DefinedForEveryIterable ==
    /\ C16_Sums
    /\ error # "ZeroDivisionError"

====
